---- MODULE Spec2Model ----
(***************************************************************************)
(* Model of automatix/logic/strel.py: the STREL formula AST, its validated *)
(* interval types and the expand_intervals rewriting pass.                  *)
(*                                                                         *)
(* Values.  Optional[int] is <<>> (None) or <<n>>.  A dataclass instance   *)
(* is the tuple of its class name followed by its fields in declaration    *)
(* order, e.g. UntilOp(lhs, interval, rhs) is <<"UntilOp", lhs, interval,  *)
(* rhs>>.  A raised exception is the one-element tuple of its class name.  *)
(***************************************************************************)
EXTENDS Integers, Sequences, FiniteSets, TLC

\* Bounds of the model.
MaxDepth == 2
MaxT == 2
MaxArg == 5
TraceLen == 3

\* math.inf, the default upper end of a DistanceInterval.
Inf == 999

None == <<>>
ValueError == <<"ValueError">>
AssertionError == <<"AssertionError">>
RuntimeError == <<"RuntimeError">>
NoResult == <<"NoResult">>

Raised(x) == x \in {ValueError, AssertionError, RuntimeError}

RECURSIVE expand_intervals(_)

(***************************************************************************)
(* Interval value types                                                    *)
(***************************************************************************)

\* Faulty variant of TimeInterval: the point-interval check [a,a] is missing.
TimeInterval_NoPointCheck(start, end) ==
    IF start # None /\ end # None /\ start[1] > end[1] THEN ValueError
    ELSE IF start # None /\ end # None /\ (start[1] < 0 \/ end[1] < 0) THEN ValueError
    ELSE <<"TimeInterval", start, end>>

\* TimeInterval(start, end) followed by __post_init__.
TimeInterval(start, end) ==
    IF start # None /\ end # None /\ start[1] = end[1] THEN ValueError
    ELSE IF start # None /\ end # None /\ start[1] > end[1] THEN ValueError
    ELSE IF start # None /\ end # None /\ (start[1] < 0 \/ end[1] < 0) THEN ValueError
    ELSE <<"TimeInterval", start, end>>

\* DistanceInterval(start, end) followed by __post_init__; the stored bounds
\* are plain numbers (floats are modelled by integers, math.inf by Inf).
DistanceInterval(start, end) ==
    LET s == IF start = None THEN 0 ELSE start[1]
        t == IF end = None THEN Inf ELSE end[1]
    IN  IF s < 0 \/ t < 0 THEN ValueError
        ELSE IF s >= t THEN ValueError
        ELSE <<"DistanceInterval", s, t>>

(***************************************************************************)
(* Formula AST: constructors (dataclass __init__ + __post_init__)          *)
(***************************************************************************)

Constant(value) == <<"Constant", value>>

Identifier(name) ==
    IF name = "" THEN AssertionError
    ELSE IF name = " " THEN AssertionError
    ELSE <<"Identifier", name>>

NotOp(arg) == <<"NotOp", arg>>

AndOp(lhs, rhs) == <<"AndOp", lhs, rhs>>

OrOp(lhs, rhs) == <<"OrOp", lhs, rhs>>

EverywhereOp(interval, arg) == <<"EverywhereOp", interval, arg>>

SomewhereOp(interval, arg) == <<"SomewhereOp", interval, arg>>

EscapeOp(interval, arg) == <<"EscapeOp", interval, arg>>

ReachOp(lhs, interval, rhs) == <<"ReachOp", lhs, interval, rhs>>

NextOp(steps, arg) ==
    IF steps # None /\ steps[1] <= 0 THEN ValueError
    ELSE IF steps = <<1>> THEN <<"NextOp", None, arg>>
    ELSE <<"NextOp", steps, arg>>

\* The `case None | TimeInterval(None, None) | TimeInterval(0, None)` pattern.
IsUntimedPattern(interval) ==
    \/ interval = None
    \/ interval = <<"TimeInterval", None, None>>
    \/ interval = <<"TimeInterval", <<0>>, None>>

GloballyOp(interval, arg) ==
    IF IsUntimedPattern(interval) THEN <<"GloballyOp", None, arg>>
    ELSE <<"GloballyOp", interval, arg>>

EventuallyOp(interval, arg) ==
    IF IsUntimedPattern(interval) THEN <<"EventuallyOp", None, arg>>
    ELSE <<"EventuallyOp", interval, arg>>

\* Faulty variant of UntilOp: [0, None] is not collapsed to None.
UntilOp_NoZeroCollapse(lhs, interval, rhs) ==
    IF interval = None \/ interval = <<"TimeInterval", None, None>>
    THEN <<"UntilOp", lhs, None, rhs>>
    ELSE <<"UntilOp", lhs, interval, rhs>>

UntilOp(lhs, interval, rhs) ==
    IF IsUntimedPattern(interval) THEN <<"UntilOp", lhs, None, rhs>>
    ELSE <<"UntilOp", lhs, interval, rhs>>

(***************************************************************************)
(* expand_intervals, one operator per class that defines or inherits it    *)
(***************************************************************************)

\* Expr.expand_intervals: the default, inherited by Constant, Identifier
\* and AndOp (none of which overrides it).
Expr_expand_intervals(self) == self

NotOp_expand_intervals(self) ==
    LET arg == expand_intervals(self[2])
    IN  IF Raised(arg) THEN arg
        ELSE IF arg[1] = "NotOp" THEN arg
        ELSE NotOp(arg)

OrOp_expand_intervals(self) ==
    LET l == expand_intervals(self[2])
        r == expand_intervals(self[3])
    IN  IF Raised(l) THEN l
        ELSE IF Raised(r) THEN r
        ELSE OrOp(l, r)

EverywhereOp_expand_intervals(self) ==
    LET arg == expand_intervals(self[3])
    IN  IF Raised(arg) THEN arg ELSE EverywhereOp(self[2], arg)

SomewhereOp_expand_intervals(self) ==
    LET arg == expand_intervals(self[3])
    IN  IF Raised(arg) THEN arg ELSE SomewhereOp(self[2], arg)

EscapeOp_expand_intervals(self) ==
    LET arg == expand_intervals(self[3])
    IN  IF Raised(arg) THEN arg ELSE EscapeOp(self[2], arg)

ReachOp_expand_intervals(self) ==
    LET l == expand_intervals(self[2])
        r == expand_intervals(self[4])
    IN  IF Raised(l) THEN l
        ELSE IF Raised(r) THEN r
        ELSE ReachOp(l, self[3], r)

\* `for _ in range(t): expr = NextOp(None, expr)`
RECURSIVE NextLoop(_, _)
NextLoop(t, expr) ==
    IF t <= 0 THEN expr ELSE NextLoop(t - 1, NextOp(None, expr))

\* Faulty variant of NextOp.expand_intervals: the step count is kept
\* instead of being unrolled.
NextOp_expand_intervals_NoUnroll(self) ==
    LET arg == expand_intervals(self[3])
    IN  IF Raised(arg) THEN arg ELSE NextOp(self[2], arg)

NextOp_expand_intervals(self) ==
    LET arg == expand_intervals(self[3])
    IN  IF Raised(arg) THEN arg
        ELSE IF self[2] = None THEN NextOp(None, arg)
        ELSE NextLoop(self[2][1], arg)

\* `for _ in range(t2): expr = OrOp(expr, NextOp(None, arg))`
RECURSIVE OrLoop(_, _, _)
OrLoop(t2, expr, arg) ==
    IF t2 <= 0 THEN expr ELSE OrLoop(t2 - 1, OrOp(expr, NextOp(None, arg)), arg)

\* Faulty variant of EventuallyOp.expand_intervals: the shifted disjuncts of
\* F[0, t2] are built from the argument as given, not the expanded one.
EventuallyOp_expand_intervals_RawArg(self) ==
    LET interval == self[2]
    IN  IF IsUntimedPattern(interval)
        THEN LET arg == expand_intervals(self[3])
             IN  IF Raised(arg) THEN arg ELSE EventuallyOp(None, arg)
        ELSE IF interval[2] \in {None, <<0>>} /\ interval[3] # None
        THEN LET arg == expand_intervals(self[3])
             IN  IF Raised(arg) THEN arg ELSE OrLoop(interval[3][1], arg, self[3])
        ELSE IF interval[2] # None /\ interval[3] = None
        THEN IF ~(interval[2][1] > 0) THEN AssertionError
             ELSE LET nxt == NextOp(interval[2], EventuallyOp(None, self[3]))
                  IN  IF Raised(nxt) THEN nxt ELSE expand_intervals(nxt)
        ELSE IF interval[2] # None /\ interval[3] # None
        THEN IF ~(interval[2][1] > 0) THEN AssertionError
             ELSE LET rest == TimeInterval(<<0>>, <<interval[3][1] - interval[2][1]>>)
                      nxt  == NextOp(interval[2], EventuallyOp(rest, self[3]))
                  IN  IF Raised(rest) THEN rest
                      ELSE IF Raised(nxt) THEN nxt
                      ELSE expand_intervals(nxt)
        ELSE RuntimeError

EventuallyOp_expand_intervals(self) ==
    LET interval == self[2]
    IN  IF IsUntimedPattern(interval)
        THEN \* Unbounded F
             LET arg == expand_intervals(self[3])
             IN  IF Raised(arg) THEN arg ELSE EventuallyOp(None, arg)
        ELSE IF interval[2] \in {None, <<0>>} /\ interval[3] # None
        THEN \* F[0, t2]
             LET arg == expand_intervals(self[3])
             IN  IF Raised(arg) THEN arg ELSE OrLoop(interval[3][1], arg, arg)
        ELSE IF interval[2] # None /\ interval[3] = None
        THEN \* F[t1, inf]
             IF ~(interval[2][1] > 0) THEN AssertionError
             ELSE LET nxt == NextOp(interval[2], EventuallyOp(None, self[3]))
                  IN  IF Raised(nxt) THEN nxt ELSE expand_intervals(nxt)
        ELSE IF interval[2] # None /\ interval[3] # None
        THEN \* F[t1, t2] = X[t1] F[0, t2 - t1] arg
             IF ~(interval[2][1] > 0) THEN AssertionError
             ELSE LET rest == TimeInterval(<<0>>, <<interval[3][1] - interval[2][1]>>)
                      nxt  == NextOp(interval[2], EventuallyOp(rest, self[3]))
                  IN  IF Raised(rest) THEN rest
                      ELSE IF Raised(nxt) THEN nxt
                      ELSE expand_intervals(nxt)
        ELSE RuntimeError

GloballyOp_expand_intervals(self) ==
    expand_intervals(NotOp(EventuallyOp(self[2], NotOp(self[3]))))

\* Faulty variant of UntilOp.expand_intervals: the window constraint is put
\* on the expanded right operand.
UntilOp_expand_intervals_RhsWindow(self) ==
    LET new_lhs  == expand_intervals(self[2])
        new_rhs  == expand_intervals(self[4])
        interval == self[3]
    IN  IF Raised(new_lhs) THEN new_lhs
        ELSE IF Raised(new_rhs) THEN new_rhs
        ELSE IF interval = None \/ (interval[2] \in {None, <<0>>} /\ interval[3] = None)
        THEN UntilOp(new_lhs, None, new_rhs)
        ELSE IF interval[3] = None
        THEN LET window == TimeInterval(<<0>>, interval[2])
             IN  IF Raised(window) THEN window
                 ELSE expand_intervals(GloballyOp(window, UntilOp(new_lhs, None, new_rhs)))
        ELSE LET z1 == expand_intervals(EventuallyOp(interval, new_rhs))
                 until_interval == TimeInterval(interval[2], None)
                 z2 == expand_intervals(UntilOp(new_lhs, until_interval, new_rhs))
             IN  IF Raised(z1) THEN z1
                 ELSE IF Raised(z2) THEN z2
                 ELSE AndOp(z1, z2)

UntilOp_expand_intervals(self) ==
    LET new_lhs  == expand_intervals(self[2])
        new_rhs  == expand_intervals(self[4])
        interval == self[3]
    IN  IF Raised(new_lhs) THEN new_lhs
        ELSE IF Raised(new_rhs) THEN new_rhs
        ELSE IF interval = None \/ (interval[2] \in {None, <<0>>} /\ interval[3] = None)
        THEN \* Just make an unbounded one here
             UntilOp(new_lhs, None, new_rhs)
        ELSE IF interval[3] = None
        THEN \* Unbounded end
             LET window == TimeInterval(<<0>>, interval[2])
             IN  IF Raised(window) THEN window
                 ELSE expand_intervals(GloballyOp(window, UntilOp(new_lhs, None, new_rhs)))
        ELSE LET z1 == expand_intervals(EventuallyOp(interval, new_lhs))
                 until_interval == TimeInterval(interval[2], None)
                 z2 == expand_intervals(UntilOp(new_lhs, until_interval, new_rhs))
             IN  IF Raised(z1) THEN z1
                 ELSE IF Raised(z2) THEN z2
                 ELSE AndOp(z1, z2)

\* Method dispatch on the dynamic class of self.
expand_intervals(self) ==
    CASE self[1] = "NotOp"        -> NotOp_expand_intervals(self)
      [] self[1] = "OrOp"         -> OrOp_expand_intervals(self)
      [] self[1] = "EverywhereOp" -> EverywhereOp_expand_intervals(self)
      [] self[1] = "SomewhereOp"  -> SomewhereOp_expand_intervals(self)
      [] self[1] = "EscapeOp"     -> EscapeOp_expand_intervals(self)
      [] self[1] = "ReachOp"      -> ReachOp_expand_intervals(self)
      [] self[1] = "NextOp"       -> NextOp_expand_intervals(self)
      [] self[1] = "GloballyOp"   -> GloballyOp_expand_intervals(self)
      [] self[1] = "EventuallyOp" -> EventuallyOp_expand_intervals(self)
      [] self[1] = "UntilOp"      -> UntilOp_expand_intervals(self)
      [] OTHER                    -> Expr_expand_intervals(self)

(***************************************************************************)
(* State machine: a client builds a formula node by node with the          *)
(* constructors, then calls expand_intervals on it.                        *)
(***************************************************************************)

VARIABLES
    e,        \* the formula built so far
    call,     \* the last constructor call: <<class name, raw steps/interval argument>>
    result,   \* NoResult, or what e.expand_intervals() returned or raised
    ti_args,  \* the arguments of the last TimeInterval(start, end) call
    ti        \* what that call returned or raised

vars == <<e, call, result, ti_args, ti>>

\* Nesting depth of a formula.
RECURSIVE Depth(_)
Depth(x) ==
    LET Max2(a, b) == IF a >= b THEN a ELSE b
    IN  CASE x[1] \in {"Constant", "Identifier"} -> 0
          [] x[1] = "NotOp" -> 1 + Depth(x[2])
          [] x[1] \in {"AndOp", "OrOp"} -> 1 + Max2(Depth(x[2]), Depth(x[3]))
          [] x[1] \in {"ReachOp", "UntilOp"} -> 1 + Max2(Depth(x[2]), Depth(x[4]))
          [] OTHER -> 1 + Depth(x[3])

\* The leaves a formula is started from, and the leaf used as the other
\* operand of a binary node.
Atoms == {Constant(TRUE), Identifier("p")}
Others == {Identifier("q")}

\* Optional[int] arguments offered to TimeInterval and NextOp.
OptTimes == {None, <<0 - 1>>, <<0>>, <<1>>, <<MaxT>>}

\* Optional[float] arguments offered to DistanceInterval.
OptDists == {None, <<1>>}

Building == result = NoResult /\ Depth(e) < MaxDepth

Init ==
    /\ e \in Atoms
    /\ call = None
    /\ result = NoResult
    /\ ti_args = None
    /\ ti = None

NewNotOp ==
    /\ Building
    /\ e' = NotOp(e)
    /\ call' = <<"NotOp">>
    /\ UNCHANGED <<result, ti_args, ti>>

NewAndOp ==
    /\ Building
    /\ \E other \in Others : e' \in {AndOp(e, other), AndOp(other, e)}
    /\ call' = <<"AndOp">>
    /\ UNCHANGED <<result, ti_args, ti>>

NewOrOp ==
    /\ Building
    /\ \E other \in Others : e' \in {OrOp(e, other), OrOp(other, e)}
    /\ call' = <<"OrOp">>
    /\ UNCHANGED <<result, ti_args, ti>>

NewEverywhereOp ==
    /\ Building
    /\ \E start \in OptDists, end \in OptDists :
          /\ ~Raised(DistanceInterval(start, end))
          /\ e' = EverywhereOp(DistanceInterval(start, end), e)
    /\ call' = <<"EverywhereOp">>
    /\ UNCHANGED <<result, ti_args, ti>>

NewSomewhereOp ==
    /\ Building
    /\ \E start \in OptDists, end \in OptDists :
          /\ ~Raised(DistanceInterval(start, end))
          /\ e' = SomewhereOp(DistanceInterval(start, end), e)
    /\ call' = <<"SomewhereOp">>
    /\ UNCHANGED <<result, ti_args, ti>>

NewEscapeOp ==
    /\ Building
    /\ \E start \in OptDists, end \in OptDists :
          /\ ~Raised(DistanceInterval(start, end))
          /\ e' = EscapeOp(DistanceInterval(start, end), e)
    /\ call' = <<"EscapeOp">>
    /\ UNCHANGED <<result, ti_args, ti>>

NewReachOp ==
    /\ Building
    /\ \E start \in OptDists, end \in OptDists, other \in Others :
          /\ ~Raised(DistanceInterval(start, end))
          /\ e' \in {ReachOp(e, DistanceInterval(start, end), other),
                     ReachOp(other, DistanceInterval(start, end), e)}
    /\ call' = <<"ReachOp">>
    /\ UNCHANGED <<result, ti_args, ti>>

NewNextOp ==
    /\ Building
    /\ \E steps \in OptTimes :
          /\ ~Raised(NextOp(steps, e))
          /\ e' = NextOp(steps, e)
          /\ call' = <<"NextOp", steps>>
    /\ UNCHANGED <<result, ti_args, ti>>

\* The Optional[TimeInterval] values a client can pass: None, or any
\* TimeInterval whose constructor returned.
TimeIntervals ==
    {None} \cup
    ({TimeInterval(start, end) : start \in OptTimes, end \in OptTimes} \ {ValueError})

NewGloballyOp ==
    /\ Building
    /\ \E interval \in TimeIntervals :
          /\ e' = GloballyOp(interval, e)
          /\ call' = <<"GloballyOp", interval>>
    /\ UNCHANGED <<result, ti_args, ti>>

NewEventuallyOp ==
    /\ Building
    /\ \E interval \in TimeIntervals :
          /\ e' = EventuallyOp(interval, e)
          /\ call' = <<"EventuallyOp", interval>>
    /\ UNCHANGED <<result, ti_args, ti>>

NewUntilOp ==
    /\ Building
    /\ \E interval \in TimeIntervals, other \in Others :
          /\ e' \in {UntilOp(e, interval, other), UntilOp(other, interval, e)}
          /\ call' = <<"UntilOp", interval>>
    /\ UNCHANGED <<result, ti_args, ti>>

\* result = e.expand_intervals()
Expand ==
    /\ result = NoResult
    /\ result' = expand_intervals(e)
    /\ UNCHANGED <<e, call, ti_args, ti>>

Next ==
    \/ NewNotOp
    \/ NewAndOp
    \/ NewOrOp
    \/ NewEverywhereOp
    \/ NewSomewhereOp
    \/ NewEscapeOp
    \/ NewReachOp
    \/ NewNextOp
    \/ NewGloballyOp
    \/ NewEventuallyOp
    \/ NewUntilOp
    \/ Expand

Spec == Init /\ [][Next]_vars

(***************************************************************************)
(* Second specification: a client calls TimeInterval(start, end) with     *)
(* arbitrary Optional[int] arguments.                                      *)
(***************************************************************************)

OptArgs == {None} \cup {<<t>> : t \in (0 - MaxArg)..MaxArg}

InitInterval ==
    /\ e = Constant(TRUE)
    /\ call = None
    /\ result = NoResult
    /\ ti_args = None
    /\ ti = None

NewTimeInterval ==
    /\ \E start \in OptArgs, end \in OptArgs :
          /\ ti_args' = <<start, end>>
          /\ ti' = TimeInterval(start, end)
    /\ UNCHANGED <<e, call, result>>

NextInterval == NewTimeInterval

SpecInterval == InitInterval /\ [][NextInterval]_vars

(***************************************************************************)
(* Vocabulary of the properties                                            *)
(***************************************************************************)

\* expand_intervals returned (did not raise).
Returned == result # NoResult /\ ~Raised(result)

\* Canonical form: no GloballyOp node, and no EventuallyOp/UntilOp node
\* whose interval is not None.
RECURSIVE IsCanonical(_)
IsCanonical(x) ==
    CASE x[1] \in {"Constant", "Identifier"} -> TRUE
      [] x[1] = "NotOp" -> IsCanonical(x[2])
      [] x[1] \in {"AndOp", "OrOp"} -> IsCanonical(x[2]) /\ IsCanonical(x[3])
      [] x[1] \in {"EverywhereOp", "SomewhereOp", "EscapeOp", "NextOp"} -> IsCanonical(x[3])
      [] x[1] = "ReachOp" -> IsCanonical(x[2]) /\ IsCanonical(x[4])
      [] x[1] = "GloballyOp" -> FALSE
      [] x[1] = "EventuallyOp" -> x[2] = None /\ IsCanonical(x[3])
      [] x[1] = "UntilOp" -> x[3] = None /\ IsCanonical(x[2]) /\ IsCanonical(x[4])

\* Whether a formula has a spatial operator anywhere.
RECURSIVE HasSpatial(_)
HasSpatial(x) ==
    CASE x[1] \in {"Constant", "Identifier"} -> FALSE
      [] x[1] = "NotOp" -> HasSpatial(x[2])
      [] x[1] \in {"AndOp", "OrOp"} -> HasSpatial(x[2]) \/ HasSpatial(x[3])
      [] x[1] \in {"EverywhereOp", "SomewhereOp", "EscapeOp", "ReachOp"} -> TRUE
      [] x[1] \in {"NextOp", "GloballyOp", "EventuallyOp"} -> HasSpatial(x[3])
      [] x[1] = "UntilOp" -> HasSpatial(x[2]) \/ HasSpatial(x[4])

\* Whether some TimeInterval of a formula has a negative bound.
RECURSIVE HasNegativeBound(_)
HasNegativeBound(x) ==
    LET Neg(interval) ==
            /\ interval # None
            /\ \/ (interval[2] # None /\ interval[2][1] < 0)
               \/ (interval[3] # None /\ interval[3][1] < 0)
    IN  CASE x[1] \in {"Constant", "Identifier"} -> FALSE
          [] x[1] = "NotOp" -> HasNegativeBound(x[2])
          [] x[1] \in {"AndOp", "OrOp"} -> HasNegativeBound(x[2]) \/ HasNegativeBound(x[3])
          [] x[1] = "ReachOp" -> HasNegativeBound(x[2]) \/ HasNegativeBound(x[4])
          [] x[1] \in {"GloballyOp", "EventuallyOp"} -> Neg(x[2]) \/ HasNegativeBound(x[3])
          [] x[1] = "UntilOp" ->
                Neg(x[3]) \/ HasNegativeBound(x[2]) \/ HasNegativeBound(x[4])
          [] OTHER -> HasNegativeBound(x[3])

\* a wrapped in n nested single-step NextOp nodes.
RECURSIVE NestNext(_, _)
NestNext(n, a) ==
    IF n = 0 THEN a ELSE <<"NextOp", None, NestNext(n - 1, a)>>

\* The left-associated chain a | X a | X X a | ... | X^k a.
RECURSIVE OrChain(_, _)
OrChain(k, a) ==
    IF k = 0 THEN a ELSE <<"OrOp", OrChain(k - 1, a), NestNext(k, a)>>

\* Discrete-time Boolean traces: TraceLen positions, the last one repeated
\* forever.  tr[i] is the set of identifiers true at position i.
Last == TraceLen - 1
Traces == [0..Last -> SUBSET {"p", "q"}]
Clamp(j) == IF j > Last THEN Last ELSE j

\* The positions j with i+a <= j <= i+b of an interval [a, b] seen from i;
\* a missing lower bound is 0, a missing upper bound is infinity (every
\* position from Last on carries the same letters, so Last stands for them).
Window(i, interval) ==
    LET lo == i + (IF interval = None \/ interval[2] = None THEN 0 ELSE interval[2][1])
        hi == IF interval = None \/ interval[3] = None
              THEN (IF lo > Last THEN lo ELSE Last)
              ELSE i + interval[3][1]
    IN  {j \in lo..hi : j >= 0}

\* The standard semantics of the Boolean and temporal operators.
RECURSIVE Holds(_, _, _)
Holds(x, tr, i) ==
    CASE x[1] = "Constant" -> x[2]
      [] x[1] = "Identifier" -> x[2] \in tr[i]
      [] x[1] = "NotOp" -> ~Holds(x[2], tr, i)
      [] x[1] = "AndOp" -> Holds(x[2], tr, i) /\ Holds(x[3], tr, i)
      [] x[1] = "OrOp" -> Holds(x[2], tr, i) \/ Holds(x[3], tr, i)
      [] x[1] = "NextOp" ->
            Holds(x[3], tr, Clamp(i + (IF x[2] = None THEN 1 ELSE x[2][1])))
      [] x[1] = "EventuallyOp" ->
            \E j \in Window(i, x[2]) : Holds(x[3], tr, Clamp(j))
      [] x[1] = "GloballyOp" ->
            \A j \in Window(i, x[2]) : Holds(x[3], tr, Clamp(j))
      [] x[1] = "UntilOp" ->
            \E j \in Window(i, x[3]) :
                /\ Holds(x[4], tr, Clamp(j))
                /\ \A k \in i..j : Holds(x[2], tr, Clamp(k))
      [] OTHER -> FALSE

(***************************************************************************)
(* Properties                                                              *)
(***************************************************************************)

\* C1: whenever expand_intervals(e) returns, the returned tree has no
\* GloballyOp node and no EventuallyOp/UntilOp node with a non-None interval.
C1_ResultIsCanonical == Returned => IsCanonical(result)

\* C2: expand_intervals preserves meaning: for a formula without spatial
\* operators, e and expand_intervals(e) have the same truth value on every
\* trace at every position.  Stated on the formulas whose interval bounds
\* are all non-negative, where the semantics of a window leaves no doubt.
C2_SameMeaning ==
    (Returned /\ ~HasSpatial(e) /\ ~HasNegativeBound(e)) =>
        \A tr \in Traces : \A i \in 0..Last : Holds(e, tr, i) = Holds(result, tr, i)

\* C3: an EventuallyOp whose interval has lower bound 0 or None and upper
\* bound t2 >= 1 expands to the left-associated OrOp chain of t2+1 terms
\* whose k-th term is the expanded argument under k nested NextOp nodes.
C3_EventuallyChain ==
    (/\ Returned
     /\ e[1] = "EventuallyOp"
     /\ e[2] # None
     /\ e[2][2] \in {None, <<0>>}
     /\ e[2][3] # None
     /\ e[2][3][1] >= 1) =>
        result = OrChain(e[2][3][1], expand_intervals(e[3]))

\* C4: expand_intervals is total: on every constructed formula the call
\* returns an Expr and raises nothing.
C4_NeverRaises == result # NoResult => ~Raised(result)

\* C5: with both bounds given, TimeInterval(t1, t2) raises ValueError when
\* t1 = t2, t1 > t2 or a bound is negative, and returns the interval with
\* start = t1 and end = t2 exactly when 0 <= t1 < t2.
C5_TimeIntervalValidation ==
    (ti_args # None /\ ti_args[1] # None /\ ti_args[2] # None) =>
        LET t1 == ti_args[1][1]
            t2 == ti_args[2][1]
        IN  /\ (t1 = t2 \/ t1 > t2 \/ t1 < 0 \/ t2 < 0) => ti = ValueError
            /\ (0 <= t1 /\ t1 < t2) <=> ti = <<"TimeInterval", <<t1>>, <<t2>>>>
            /\ ti \in {ValueError, <<"TimeInterval", <<t1>>, <<t2>>>>}

\* C5 witness: TimeInterval(2, 2), a point interval, was rejected.
C5_Witness == ti_args = <<(<<2>>), (<<2>>)>> /\ ti = ValueError

\* C6: GloballyOp, EventuallyOp and UntilOp store interval = None when built
\* with None, TimeInterval(None, None) or TimeInterval(0, None), and store
\* any other interval unchanged.
C6_IntervalNormalised ==
    (call # None /\ call[1] \in {"GloballyOp", "EventuallyOp", "UntilOp"}) =>
        LET raw    == call[2]
            stored == IF e[1] = "UntilOp" THEN e[3] ELSE e[2]
        IN  /\ e[1] = call[1]
            /\ stored = IF raw \in {None,
                                    <<"TimeInterval", None, None>>,
                                    <<"TimeInterval", <<0>>, None>>}
                        THEN None
                        ELSE raw

\* C6 witness: an UntilOp was built with TimeInterval(0, None) and stores None.
C6_Witness ==
    /\ call = <<"UntilOp", <<"TimeInterval", <<0>>, None>>>>
    /\ e[1] = "UntilOp"
    /\ e[3] = None

\* C7: expand_intervals(AndOp(l, r)) = AndOp(expand_intervals(l),
\* expand_intervals(r)).
C7_AndOpRecurses ==
    (/\ Returned
     /\ e[1] = "AndOp"
     /\ ~Raised(expand_intervals(e[2]))
     /\ ~Raised(expand_intervals(e[3]))) =>
        result = <<"AndOp", expand_intervals(e[2]), expand_intervals(e[3])>>

\* C8: NextOp(steps, arg) expands to expand_intervals(arg) under exactly n
\* nested NextOp nodes with steps = None, where n = 1 if steps is None or 1
\* and n = steps otherwise.
C8_NextUnrolled ==
    (Returned /\ e[1] = "NextOp") =>
        LET steps == call[2]
            n     == IF steps = None \/ steps = <<1>> THEN 1 ELSE steps[1]
        IN  result = NestNext(n, expand_intervals(e[3]))

\* C8 witness: a NextOp with a step count above 1, over an argument that
\* expansion changes, was expanded.
C8_Witness ==
    /\ Returned
    /\ e[1] = "NextOp"
    /\ call = <<"NextOp", <<MaxT>>>>
    /\ expand_intervals(e[3]) # e[3]

\* C9: an UntilOp whose interval has an integer upper bound expands to
\* AndOp(z1, z2) with z1 = expand_intervals(EventuallyOp(interval, lhs)) and
\* z2 = expand_intervals(UntilOp(L, TimeInterval(t1, None), R)), L and R
\* being the expanded operands.
C9_BoundedUntil ==
    (/\ Returned
     /\ e[1] = "UntilOp"
     /\ e[3] # None
     /\ e[3][3] # None) =>
        LET L  == expand_intervals(e[2])
            R  == expand_intervals(e[4])
            z1 == expand_intervals(EventuallyOp(e[3], e[2]))
            z2 == expand_intervals(UntilOp(L, TimeInterval(e[3][2], None), R))
        IN  result = <<"AndOp", z1, z2>>

\* C9 witness: a bounded UntilOp with a positive lower bound, whose left
\* operand expansion changes, was expanded.
C9_Witness ==
    /\ Returned
    /\ e[1] = "UntilOp"
    /\ e[3] = <<"TimeInterval", <<1>>, <<MaxT>>>>
    /\ expand_intervals(e[2]) # e[2]

\* C10: expand_intervals is idempotent on what it returns.
C10_Idempotent == Returned => expand_intervals(result) = result

\* C10 witness: a bounded EventuallyOp over an argument that expansion
\* changes was expanded, and expanding the result again changed nothing.
C10_Witness ==
    /\ Returned
    /\ e[1] = "EventuallyOp"
    /\ e[2] = <<"TimeInterval", <<0>>, <<1>>>>
    /\ expand_intervals(e[3]) # e[3]
    /\ result # e
    /\ expand_intervals(result) = result

====
